---- MODULE Spec2Model ----
(***************************************************************************)
(* Model of synth3.py: snapshot-range resolution (Env.__init__), the       *)
(* snapshot directory (list_snapshots, get_snap_id) and the sync engine    *)
(* (copy_bucket, sync_bucket, the sync-bucket loop of main), the ledger    *)
(* (load_metadata, generate_objects, flush_meta, validate) and the start   *)
(* of main, running against an object store with bucket snapshots.         *)
(***************************************************************************)
EXTENDS Integers, Sequences, FiniteSets, TLC

\* ------------------------------------------------------------------ bounds
\* snapshots the snapshot service ever holds for the source bucket
MaxSnaps == 2
\* objects written to the source bucket during the run
MaxPuts == 2

\* --------------------------------------------------------- Python values
\* A Python value that may be None, an int (ids in service replies) or a
\* str (ids and names given on the command line, range expressions).
\* Strings are sequences of one-character strings.
None == [t |-> "none"]
IntV(n) == [t |-> "int", v |-> n]
StrV(s) == [t |-> "str", v |-> s]

IsNone(x) == x.t = "none"

\* truth value of a Python object: None, 0 and '' are false
Truthy(x) ==
    CASE x.t = "none" -> FALSE
      [] x.t = "int" -> x.v # 0
      [] x.t = "str" -> x.v # <<>>

\* Python's `a or b`
PyOr(a, b) == IF Truthy(a) THEN a ELSE b

DigitChars == <<"0", "1", "2", "3", "4", "5", "6", "7", "8", "9">>

RECURSIVE DecimalOf(_)
\* decimal digits of a natural number, most significant first
DecimalOf(n) ==
    IF n < 10 THEN <<DigitChars[n + 1]>>
    ELSE DecimalOf(n \div 10) \o <<DigitChars[(n % 10) + 1]>>

DigitVal(c) == CHOOSE d \in 0..9 : DigitChars[d + 1] = c

RECURSIVE ParseDecimal(_)
\* the number a non-empty digit string denotes
ParseDecimal(s) ==
    IF Len(s) = 1 THEN DigitVal(s[1])
    ELSE 10 * ParseDecimal(SubSeq(s, 1, Len(s) - 1)) + DigitVal(s[Len(s)])

\* str(x) for an int or a str; the result is the character sequence
PyStr(x) == IF x.t = "int" THEN DecimalOf(x.v) ELSE x.v

\* int(x) for an int or a digit string
PyInt(x) == IF x.t = "int" THEN x.v ELSE ParseDecimal(x.v)

\* ------------------------------------------------------------ the buckets
\* conf.bucket_name, and the --dest-bucket of copy-bucket and sync-bucket,
\* which is taken to name another bucket than the source
SrcBucket == "b"
DestBucket == "d"
Buckets == {SrcBucket, DestBucket}

\* WorkloadConfig.prefix, and the other prefix --prefix may give
Prefix == <<"p">>
OtherPrefix == <<"q">>
Prefixes == {Prefix, OtherPrefix}

\* ids of the synthetic objects
ObjIds == {1, 2}

\* get_object_key(env, obj_id): prefix + "object_<id>.txt"
get_object_key(prefix, obj_id) == prefix \o <<"object_">> \o DecimalOf(obj_id) \o <<".txt">>

\* object keys in ascending order; the last two lie outside the default prefix
KeySeq ==
    <<get_object_key(Prefix, 1), get_object_key(Prefix, 2),
      get_object_key(OtherPrefix, 1), get_object_key(OtherPrefix, 2)>>
Keys == {KeySeq[i] : i \in 1..Len(KeySeq)}

\* WorkloadConfig.metadata_object_key is built from the prefix of that moment
MetaName == <<"metadata.json">>
MetaKeys == {p \o MetaName : p \in Prefixes}

\* object contents; 0 stands for "no such object"
Contents == {1, 2}
Absent == 0

\* snapshot names the service holds, and the name a command may ask for
Names == {<<"a">>, <<"b">>}
AskedName == <<"a">>

\* k.startswith(prefix)
StartsWith(k, p) == Len(k) >= Len(p) /\ SubSeq(k, 1, Len(p)) = p

VARIABLES
    live,       \* live[b][k]: current content of key k in bucket b
    snaps,      \* snapshot records of the source bucket, in listing order
    snapState,  \* snapState[i][k]: content of k in the source at snaps[i]
    nputs,      \* number of external writes made so far
    conf,       \* the command's configuration (main, lines 298-304)
    env,        \* the Env built from it
    pc,         \* position of the command
    call,       \* arguments and locals of the running sync_bucket call
    steps,      \* the copy_bucket calls made by the current sync_bucket call
    ret,        \* value returned by the last sync_bucket call
    io,         \* kinds of service calls the command has issued
    meta,       \* meta[k]: the metadata object stored at key k of the source
    metaState,  \* metaState[i][k]: the same as of snaps[i]
    metadata,   \* the ledger the command loaded (SyntheticS3Workload.metadata)
    report,     \* what validate printed
    gen         \* gen[p]: the generate command p

vars == <<live, snaps, snapState, nputs, conf, env, pc, call, steps, ret,
          io, meta, metaState, metadata, report, gen>>

\* the state of the generate commands and of validate
ledgerVars == <<meta, metaState, metadata, report, gen>>

\* ------------------------------------------------------ snapshot service
\* id the service gives to the n-th snapshot of the bucket: ascending with
\* creation, and crossing from one decimal digit to two
SnapIdAt(n) == 8 + n

SnapIds == {snaps[i].ID : i \in 1..Len(snaps)}

\* position of the snapshot with this id in the service's list
SnapIndex(id) == CHOOSE i \in 1..Len(snaps) : snaps[i].ID = id

\* content of the source bucket as of snapshot id
StateAt(id) == snapState[SnapIndex(id)]

\* ----------------------------------------------------------- object store
NoDash(r) == \A i \in 1..Len(r) : r[i] # "-"
DashPos(r) == CHOOSE i \in 1..Len(r) : r[i] = "-" /\ \A j \in 1..(i - 1) : r[j] # "-"
\* the part of a range expression before and after its dash
RangeLo(r) == IF NoDash(r) THEN <<>> ELSE SubSeq(r, 1, DashPos(r) - 1)
RangeHi(r) == IF NoDash(r) THEN r ELSE SubSeq(r, DashPos(r) + 1, Len(r))

\* keys the store lists for the source bucket under a range expression
\* (None: the live state; "S": the state as of S; "-S": everything up to and
\* including S; "F-S": what was written after F and up to S; an empty S is
\* "now")
StoreKeys(l, range) ==
    IF IsNone(range) THEN {k \in Keys : l[SrcBucket][k] # Absent}
    ELSE LET r == range.v
             top == IF RangeHi(r) = <<>> THEN l[SrcBucket]
                    ELSE StateAt(ParseDecimal(RangeHi(r)))
         IN  IF NoDash(r) \/ RangeLo(r) = <<>>
             THEN {k \in Keys : top[k] # Absent}
             ELSE IF RangeHi(r) # <<>> /\ ParseDecimal(RangeLo(r)) >= ParseDecimal(RangeHi(r))
             THEN {}
             ELSE {k \in Keys : top[k] # Absent /\ top[k] # StateAt(ParseDecimal(RangeLo(r)))[k]}

\* the listing, in ascending key order
StoreList(l, range) == SelectSeq(KeySeq, LAMBDA k : k \in StoreKeys(l, range))

\* content the store returns for a key: live, or as of a snapshot of the
\* source bucket; Absent makes the call fail
StoreGet(l, bucket, key, snapId) ==
    IF IsNone(snapId) THEN l[bucket][key] ELSE StateAt(snapId.v)[key]

\* ------------------------------------------------------ snapshot directory
Raise == [t |-> "raise"]
IsRaise(x) == x.t = "raise"

\* Exception('ERROR: snapshot not found: ' + snap_name)
NotFound(snap_name) ==
    [t |-> "raise", msg |-> <<"ERROR: snapshot not found: ">> \o snap_name]

RECURSIVE ByNameFirst(_)
\* the index keeping the first snapshot of each name instead of the last
ByNameFirst(s) ==
    IF s = <<>> THEN [n \in {} |-> 0]
    ELSE LET rest == ByNameFirst(Tail(s))
             first == Head(s)
         IN  [n \in (DOMAIN rest) \cup {first.Name} |->
                 IF n = first.Name THEN first.ID ELSE rest[n]]

RECURSIVE ByName(_)
\* the name -> id index: snapshots in order, a later one overwriting
ByName(s) ==
    IF s = <<>> THEN [n \in {} |-> 0]
    ELSE LET prev == ByName(SubSeq(s, 1, Len(s) - 1))
             last == s[Len(s)]
         IN  [n \in (DOMAIN prev) \cup {last.Name} |->
                 IF n = last.Name THEN last.ID ELSE prev[n]]

\* list_snapshots keeping the snapshot the cursor stands on (< for <=)
list_snapshots_inclusive(svc, start_after) ==
    LET keep(snap) == ~(~IsNone(start_after) /\ PyInt(IntV(snap.ID)) < PyInt(start_after))
        ret_snaps == SelectSeq(svc, keep)
    IN  [snaps |-> ret_snaps, snaps_by_name |-> ByName(ret_snaps)]

\* list_snapshots(env, start_after): the snapshots with id > start_after and
\* the index of their names
list_snapshots(svc, start_after) ==
    LET keep(snap) == ~(~IsNone(start_after) /\ PyInt(IntV(snap.ID)) <= PyInt(start_after))
        ret_snaps == SelectSeq(svc, keep)
    IN  [snaps |-> ret_snaps, snaps_by_name |-> ByName(ret_snaps)]

\* get_snap_id(env, snap_id, snap_name)
get_snap_id(svc, snap_id, snap_name) ==
    IF ~IsNone(snap_id) THEN snap_id
    ELSE IF ~Truthy(snap_name) THEN None
    ELSE LET by_name == list_snapshots(svc, None).snaps_by_name
         IN  IF snap_name.v \in DOMAIN by_name THEN IntV(by_name[snap_name.v])
             ELSE NotFound(snap_name.v)

\* the service calls get_snap_id makes: list_snapshots, which first turns
\* snapshots on for the bucket
get_snap_id_calls(snap_id, snap_name) ==
    IF ~IsNone(snap_id) \/ ~Truthy(snap_name) THEN {}
    ELSE {"put_bucket_snapshots_configuration", "list_bucket_snapshots"}

\* ------------------------------------------------------------- the Env
\* Env.__init__ testing the from id before --all-objs
env_snap_range_from_first(c, snap_id) ==
    LET range0 == IF ~IsNone(snap_id) THEN StrV(PyStr(snap_id)) ELSE None
        snap_id_str == PyStr(PyOr(range0, StrV(<<>>)))
    IN  IF ~IsNone(c.from_snap_id)
        THEN StrV(PyStr(c.from_snap_id) \o <<"-">> \o snap_id_str)
        ELSE IF c.all_objs THEN StrV(<<"-">> \o snap_id_str)
        ELSE range0

\* snap_range as Env.__init__ builds it from the resolved target id
env_snap_range(c, snap_id) ==
    LET range0 == IF ~IsNone(snap_id) THEN StrV(PyStr(snap_id)) ELSE None
        snap_id_str == PyStr(PyOr(range0, StrV(<<>>)))
    IN  IF c.all_objs THEN StrV(<<"-">> \o snap_id_str)
        ELSE IF ~IsNone(c.from_snap_id)
             THEN StrV(PyStr(c.from_snap_id) \o <<"-">> \o snap_id_str)
        ELSE range0

\* Env.__init__(conf, init_snapshot); Raise when a name is not found
EnvOf(c, svc, init_snapshot) ==
    LET snap_id == IF init_snapshot THEN get_snap_id(svc, c.snap_id, c.snap_name)
                   ELSE c.snap_id
        from_snap_id == IF init_snapshot
                        THEN get_snap_id(svc, c.from_snap_id, c.from_snap_name)
                        ELSE c.from_snap_id
    IN  IF IsRaise(snap_id) THEN snap_id
        ELSE IF IsRaise(from_snap_id) THEN from_snap_id
        ELSE [t |-> "env", snap_id |-> snap_id, from_snap_id |-> from_snap_id,
              snap_range |-> env_snap_range(c, snap_id)]

\* the service calls Env.__init__ makes; a lookup that raises ends it
EnvCalls(c, svc, init_snapshot) ==
    IF ~init_snapshot THEN {}
    ELSE get_snap_id_calls(c.snap_id, c.snap_name)
         \cup (IF IsRaise(get_snap_id(svc, c.snap_id, c.snap_name)) THEN {}
               ELSE get_snap_id_calls(c.from_snap_id, c.from_snap_name))

\* ------------------------------------------------------- object transfer
\* list_objects without the fallback to the Env's range
list_objects_range_arg(e, snap_range) == snap_range

\* list_objects(env, snap_range): the SnapRange it sends (None: it sends none)
list_objects_range(e, snap_range) == PyOr(snap_range, e.snap_range)

list_objects(l, e, snap_range) == StoreList(l, list_objects_range(e, snap_range))

\* get_object dropping the snap_id it is given
get_object_snap_live(e, snap_id) ==
    LET eff_snap_id == e.snap_id
    IN  IF IsNone(eff_snap_id) THEN None ELSE IntV(PyInt(eff_snap_id))

\* get_object without the fallback to the Env's target snapshot
get_object_snap_arg(e, snap_id) ==
    LET eff_snap_id == snap_id
    IN  IF IsNone(eff_snap_id) THEN None ELSE IntV(PyInt(eff_snap_id))

\* get_object(env, bucket, key, snap_id): the SnapId it sends (None: none)
get_object_snap(e, snap_id) ==
    LET eff_snap_id == PyOr(snap_id, e.snap_id)
    IN  IF IsNone(eff_snap_id) THEN None ELSE IntV(PyInt(eff_snap_id))

get_object(l, e, bucket, key, snap_id) ==
    StoreGet(l, bucket, key, get_object_snap(e, snap_id))

\* a put that adds to the object already stored instead of replacing it
put_object_append(l, bucket, key, data) == [l EXCEPT ![bucket][key] = @ + data]

put_object(l, bucket, key, data) == [l EXCEPT ![bucket][key] = data]

\* ---------------------------------------------------------- copy_bucket
\* copy_bucket without the '-' of the non-incremental copy
copy_snap_range_point(snap_id, incremental) ==
    IF Truthy(snap_id) THEN StrV(PyStr(snap_id)) ELSE None

\* the snap_range copy_bucket passes to list_objects
copy_snap_range(snap_id, incremental) ==
    IF Truthy(snap_id)
    THEN IF ~incremental THEN StrV(<<"-">> \o PyStr(snap_id))
         ELSE StrV(PyStr(snap_id))
    ELSE None

\* copy_bucket without its prefix test
copy_selects_all(k, c) == TRUE

\* the keys of the listing that copy_bucket copies
copy_selects(k, c) == StartsWith(k, c.prefix)

RECURSIVE copy_loop(_, _, _, _, _, _, _, _)
\* the loop of copy_bucket over the listing, from position i; a failing
\* get_object raises and ends it
copy_loop(l, c, e, dest_bucket, listing, i, snap_id, written) ==
    IF i > Len(listing) THEN [live |-> l, ok |-> TRUE, written |-> written]
    ELSE LET k == listing[i]
         IN  IF ~copy_selects(k, c)
             THEN copy_loop(l, c, e, dest_bucket, listing, i + 1, snap_id, written)
             ELSE LET obj_data == get_object(l, e, SrcBucket, k, snap_id)
                  IN  IF obj_data = Absent
                      THEN [live |-> l, ok |-> FALSE, written |-> written]
                      ELSE copy_loop(put_object(l, dest_bucket, k, obj_data), c, e,
                                     dest_bucket, listing, i + 1, snap_id,
                                     written \cup {k})

\* copy_bucket(dest_bucket, snap_id, incremental): the store afterwards and a
\* record of what it asked of the store
copy_bucket(l, c, e, dest_bucket, snap_id, incremental) ==
    LET snap_range == copy_snap_range(snap_id, incremental)
        listing == list_objects(l, e, snap_range)
        r == copy_loop(l, c, e, dest_bucket, listing, 1, snap_id, {})
    IN  [live |-> r.live, ok |-> r.ok,
         step |-> [snap_id |-> snap_id, incremental |-> incremental,
                   range |-> list_objects_range(e, snap_range),
                   fetch |-> get_object_snap(e, snap_id),
                   listed |-> {listing[i] : i \in 1..Len(listing)},
                   written |-> r.written,
                   before |-> l[dest_bucket]]]

\* ------------------------------------------------------------ the ledger
\* sha256 of a content, and the size of a content
Digest(content) == <<"h">> \o DecimalOf(content)
SizeOf(content) == content

\* the ledger load_metadata falls back to
EmptyLedger ==
    [t |-> "dict", objects |-> [i \in {} |-> 0], generated_at |-> None]
\* the value of the JSON text "[]"
ListValue == [t |-> "list"]
\* generated_at after flush_meta: a one-element tuple
TupleValue == [t |-> "tuple"]

IsLedger(md) == md.t = "dict"

\* the keys of a ledger's objects, by ascending id
IdSeq(objects) ==
    SelectSeq([i \in 1..Cardinality(ObjIds) |-> DecimalOf(i)],
              LAMBDA k : k \in DOMAIN objects)

RECURSIVE EntriesText(_, _)
\* the members of "objects": per id its key, its size in decimal, its hash
EntriesText(objects, ids) ==
    IF ids = <<>> THEN <<>>
    ELSE LET m == objects[Head(ids)]
         IN  <<Head(ids), m.object_key, DecimalOf(m.size), m.sha256>>
             \o EntriesText(objects, Tail(ids))

\* json.dumps of the ledger: a text of tokens; a tuple is written as a list
json_dumps(md) ==
    IF IsLedger(md)
    THEN << <<"{">> >> \o EntriesText(md.objects, IdSeq(md.objects))
         \o << IF IsNone(md.generated_at) THEN <<"null">> ELSE <<"[", "T", "]">>,
               <<"}">> >>
    ELSE << <<"[">>, <<"]">> >>

\* texts json.loads accepts
IsLedgerText(text) ==
    /\ Len(text) >= 3
    /\ text[1] = <<"{">>
    /\ text[Len(text)] = <<"}">>
    /\ (Len(text) - 3) % 4 = 0
IsListText(text) == text = << <<"[">>, <<"]">> >>

\* json.loads: the value of a text, Raise when it is not JSON
json_loads(text) ==
    IF IsLedgerText(text)
    THEN LET n == (Len(text) - 3) \div 4
             at(j) == 4 * (j - 1) + 2
             ids == {text[at(j)] : j \in 1..n}
             pos(id) == CHOOSE j \in 1..n : text[at(j)] = id
         IN  [t |-> "dict",
              objects |-> [id \in ids |->
                              [object_key |-> text[at(pos(id)) + 1],
                               size |-> ParseDecimal(text[at(pos(id)) + 2]),
                               sha256 |-> text[at(pos(id)) + 3]]],
              generated_at |-> IF text[Len(text) - 1] = <<"null">> THEN None
                               ELSE ListValue]
    ELSE IF IsListText(text) THEN ListValue
    ELSE Raise

\* the metadata object the store returns: live, or as of a snapshot; None
\* when the key holds no object
MetaGet(m, ms, key, snapId) ==
    IF IsNone(snapId) THEN m[key] ELSE ms[SnapIndex(snapId.v)][key]

\* load_metadata that ignores what is stored
load_metadata_fresh(m, ms, c, e, ok) == EmptyLedger

\* load_metadata(env): ok is whether the store answers the request
load_metadata(m, ms, c, e, ok) ==
    LET metadata_content == MetaGet(m, ms, c.metadata_object_key, get_object_snap(e, None))
        loaded == IF ~ok \/ IsNone(metadata_content) THEN Raise
                  ELSE json_loads(metadata_content.v)
    IN  IF IsRaise(loaded) THEN EmptyLedger ELSE loaded

\* ------------------------------------------------------------------ Init
NoConf == [t |-> "none"]
NoEnv == [t |-> "none"]
NoCall == [t |-> "none"]
NoMetadata == [t |-> "none"]
NoReport == [t |-> "none"]

\* the generate commands
Procs == {1, 2}
NoGen ==
    [pc |-> "start", conf |-> NoConf, metadata |-> NoMetadata, todo |-> <<>>,
     forever |-> FALSE, auto_snap |-> FALSE, snap_ratio |-> 0, i |-> 0,
     wrote |-> 0, before |-> None, mine |-> {}, overlap |-> FALSE, ups |-> 0,
     refused |-> FALSE]

SrcInit == [k \in Keys |-> IF k = KeySeq[2] THEN Absent ELSE 1]
\* the destination starts with one key missing and stale content elsewhere
DestInit == [k \in Keys |-> IF k = KeySeq[1] THEN Absent ELSE 2]

\* everything but the stored metadata
InitCommand ==
    /\ live = [b \in Buckets |-> IF b = SrcBucket THEN SrcInit ELSE DestInit]
    /\ snaps = <<>>
    /\ snapState = <<>>
    /\ nputs = 0
    /\ conf = NoConf
    /\ env = NoEnv
    /\ pc = "start"
    /\ call = NoCall
    /\ steps = <<>>
    /\ ret = None
    /\ io = {}
    /\ metaState = <<>>
    /\ metadata = NoMetadata
    /\ report = NoReport
    /\ gen = [p \in Procs |-> NoGen]

\* no ledger has been written yet
Init ==
    /\ InitCommand
    /\ meta = [k \in MetaKeys |-> None]

\* ------------------------------------------------- the bucket's other users
\* another command (generate) overwrites or creates an object of the source;
\* nothing ever deletes one
gen_object(k, v) ==
    /\ nputs < MaxPuts
    /\ StartsWith(k, Prefix)
    /\ v # live[SrcBucket][k]
    /\ live' = put_object(live, SrcBucket, k, v)
    /\ nputs' = nputs + 1
    /\ UNCHANGED <<snaps, snapState, conf, env, pc, call, steps, ret, io>>
    /\ UNCHANGED ledgerVars

\* create_snapshot(env, snap_name, description) by another command
create_snapshot(snap_name) ==
    /\ Len(snaps) < MaxSnaps
    /\ snaps' = Append(snaps, [ID |-> SnapIdAt(Len(snaps) + 1), Name |-> snap_name])
    /\ snapState' = Append(snapState, live[SrcBucket])
    /\ metaState' = Append(metaState, meta)
    /\ UNCHANGED <<live, nputs, conf, env, pc, call, steps, ret, io>>
    /\ UNCHANGED <<meta, metadata, report, gen>>

\* ------------------------------------------------------------- the command
\* ids and names the command line can carry: the ids are those of snapshots
\* the service holds, written in decimal
IdArgs == {None} \cup {StrV(DecimalOf(id)) : id \in SnapIds}
NameArgs == {None, StrV(AskedName)}

\* --prefix: absent, or another prefix
PrefixArgs == {None, StrV(OtherPrefix)}

\* WorkloadConfig(): the key of the metadata object is fixed here
WorkloadConfig ==
    [prefix |-> Prefix, metadata_object_key |-> Prefix \o MetaName]

\* main, lines 298-304: the options overwrite the fields of WorkloadConfig()
main_conf(prefix, snap_id, snap_name, from_snap_id, from_snap_name, all_objs) ==
    [t |-> "conf", snap_id |-> snap_id, snap_name |-> snap_name,
     from_snap_id |-> from_snap_id, from_snap_name |-> from_snap_name,
     all_objs |-> all_objs,
     prefix |-> PyOr(prefix, StrV(WorkloadConfig.prefix)).v,
     metadata_object_key |-> WorkloadConfig.metadata_object_key]

Confs ==
    {main_conf(p, i, n, fi, fn, a) :
        p \in PrefixArgs, i \in IdArgs, n \in NameArgs,
        fi \in IdArgs, fn \in NameArgs, a \in BOOLEAN}

\* the command lines with the default prefix that name a snapshot in one way
\* only; the others build the same Env fields (an id beside a name wins, a
\* from name never reaches the range) and are covered by SpecEnv
PlainConfs ==
    {c \in {main_conf(None, i, n, fi, None, a) :
                i \in IdArgs, n \in NameArgs, fi \in IdArgs, a \in BOOLEAN} :
        IsNone(c.snap_id) \/ IsNone(c.snap_name)}

\* main, lines 298-308: the configuration, the Env, and the workload, whose
\* constructor creates the bucket and loads the ledger; an exception ends the
\* command, and otherwise the command's branch is entered at position ready
main_construct(c, init_snapshot, ready) ==
    /\ pc = "start"
    /\ conf' = c
    /\ env' = EnvOf(c, snaps, init_snapshot)
    /\ \E ok \in BOOLEAN :
           metadata' = IF IsRaise(env') THEN NoMetadata
                       ELSE load_metadata(meta, metaState, c, env', ok)
    /\ io' = EnvCalls(c, snaps, init_snapshot)
             \cup (IF IsRaise(env') THEN {} ELSE {"create_bucket", "get_object"})
    /\ pc' = IF IsRaise(env') THEN "failed" ELSE ready
    /\ UNCHANGED <<live, snaps, snapState, nputs, call, steps, ret>>
    /\ UNCHANGED <<meta, metaState, report, gen>>

\* a command that resolves its snapshots, up to the dispatch on the command
main_env(c) == main_construct(c, TRUE, "ready")

\* commands with a required option: --snap-name for create-snapshot,
\* --dest-bucket for the other two
NeedsOption == {"create-snapshot", "copy-bucket", "sync-bucket"}

\* main for a command line that lacks the required option (for copy-bucket
\* and sync-bucket it carries no --dest-bucket): parser.error in the
\* command's branch, lines 330-331, 360-361, 366-367
main_usage_error(c, command) ==
    /\ command = "create-snapshot" => ~Truthy(c.snap_name)
    /\ main_construct(c, command # "create-snapshot", "rejected")

\* the service calls of a copy_bucket call
CopyCalls(r) ==
    {"create_bucket", "list_objects_v2"}
    \cup (IF r.step.written # {} \/ ~r.ok THEN {"get_object"} ELSE {})
    \cup (IF r.step.written # {} THEN {"put_object"} ELSE {})

\* main, copy-bucket
main_copy_bucket ==
    /\ pc = "ready"
    /\ LET r == copy_bucket(live, conf, env, DestBucket, None, FALSE)
       IN  /\ live' = r.live
           /\ steps' = <<r.step>>
           /\ io' = io \cup CopyCalls(r)
           /\ pc' = IF r.ok THEN "done" ELSE "failed"
    /\ UNCHANGED <<snaps, snapState, nputs, conf, env, call, ret>>
    /\ UNCHANGED ledgerVars

\* sync_bucket keeping the first listed snapshot instead of the last
sync_todo_first(listed, incremental) ==
    IF Len(listed) > 0 /\ ~incremental THEN <<listed[1]>> ELSE listed

\* the snapshots sync_bucket goes through: all those listed, or on a
\* non-incremental call only the last of them
sync_todo(listed, incremental) ==
    IF Len(listed) > 0 /\ ~incremental THEN <<listed[Len(listed)]>> ELSE listed

\* entry of sync_bucket(dest_bucket, follow_snaps, cur_snap_id, incremental),
\* up to its loop over the snapshots
\* (copied: the ids of the snapshots the loop of main has copied so far)
sync_enter(dest_bucket, follow_snaps, cur_snap_id, incremental, forever, seeded, copied) ==
    IF ~follow_snaps
    THEN LET r == copy_bucket(live, conf, env, dest_bucket, None, FALSE)
         IN  /\ live' = r.live
             /\ steps' = <<r.step>>
             /\ io' = io \cup CopyCalls(r)
             /\ pc' = IF r.ok THEN "syncing" ELSE "failed"
             /\ call' = [t |-> "call", dest_bucket |-> dest_bucket,
                         follow_snaps |-> follow_snaps, cursor |-> cur_snap_id,
                         incremental |-> incremental, forever |-> forever,
                         seeded |-> seeded, nlisted |-> 0, pending |-> <<>>,
                         cur_snap_id |-> cur_snap_id, copied |-> copied]
    ELSE LET listed == list_snapshots(snaps, cur_snap_id).snaps
             todo == sync_todo(listed, incremental)
         IN  /\ live' = live
             /\ steps' = <<>>
             /\ io' = io \cup {"put_bucket_snapshots_configuration",
                                "list_bucket_snapshots"}
             /\ pc' = "syncing"
             /\ call' = [t |-> "call", dest_bucket |-> dest_bucket,
                         follow_snaps |-> follow_snaps, cursor |-> cur_snap_id,
                         incremental |-> incremental, forever |-> forever,
                         seeded |-> seeded, nlisted |-> Len(snaps), pending |-> todo,
                         cur_snap_id |-> cur_snap_id, copied |-> copied]

\* main, sync-bucket: the first call of the loop
main_sync_bucket(follow_snaps, forever) ==
    /\ pc = "ready"
    /\ sync_enter(DestBucket, follow_snaps, None, FALSE, forever, TRUE, <<>>)
    /\ UNCHANGED <<snaps, snapState, nputs, conf, env, ret>>
    /\ UNCHANGED ledgerVars

\* sync_bucket called on its own with any cursor and either mode
sync_bucket(follow_snaps, cur_snap_id, incremental) ==
    /\ pc = "ready"
    /\ sync_enter(DestBucket, follow_snaps, cur_snap_id, incremental, FALSE, FALSE, <<>>)
    /\ UNCHANGED <<snaps, snapState, nputs, conf, env, ret>>
    /\ UNCHANGED ledgerVars

\* one turn of sync_bucket's loop: the copy of the next snapshot
sync_step ==
    /\ pc = "syncing"
    /\ call.pending # <<>>
    /\ LET snap == Head(call.pending)
           r == copy_bucket(live, conf, env, call.dest_bucket, IntV(snap.ID),
                            call.incremental)
       IN  /\ live' = r.live
           /\ steps' = Append(steps, r.step)
           /\ call' = [call EXCEPT !.pending = Tail(call.pending),
                                   !.cur_snap_id = IntV(snap.ID),
                                   !.copied = Append(@, snap.ID)]
           /\ io' = io \cup CopyCalls(r)
           /\ pc' = IF r.ok THEN "syncing" ELSE "failed"
    /\ UNCHANGED <<snaps, snapState, nputs, conf, env, ret>>
    /\ UNCHANGED ledgerVars

\* a store or service call of the next copy fails before anything is
\* written: the exception leaves sync_bucket and main, which catch nothing
sync_step_fails ==
    /\ pc = "syncing"
    /\ call.pending # <<>>
    /\ pc' = "failed"
    /\ io' = io \cup {"create_bucket"}
    /\ UNCHANGED <<live, snaps, snapState, nputs, conf, env, call, steps, ret>>
    /\ UNCHANGED ledgerVars

\* sync_bucket returning the cursor it was given
sync_result_entry(c) == c.cursor

\* the value sync_bucket returns: the id of the last snapshot it went
\* through, or the cursor it was given when there was none
sync_result(c) == c.cur_snap_id

\* sync_bucket returns cur_snap_id; main leaves its loop unless --forever
sync_return ==
    /\ pc = "syncing"
    /\ call.pending = <<>>
    /\ ret' = sync_result(call)
    /\ pc' = IF call.forever THEN "returned" ELSE "done"
    /\ UNCHANGED <<live, snaps, snapState, nputs, conf, env, call, steps, io>>
    /\ UNCHANGED ledgerVars

\* main, sync-bucket --forever: the next call, incremental, from the cursor
main_sync_again ==
    /\ pc = "returned"
    /\ sync_enter(call.dest_bucket, call.follow_snaps, ret, TRUE, TRUE, call.seeded,
                  call.copied)
    /\ UNCHANGED <<snaps, snapState, nputs, conf, env, ret>>
    /\ UNCHANGED ledgerVars

\* cursors a caller may hand to sync_bucket
Cursors == {None} \cup {IntV(id) : id \in SnapIds}

Next ==
    \/ \E k \in Keys, v \in Contents : gen_object(k, v)
    \/ create_snapshot(AskedName)
    \/ \E c \in PlainConfs : main_env(c)
    \/ main_copy_bucket
    \/ \E f \in BOOLEAN, fe \in BOOLEAN : main_sync_bucket(f, fe)
    \/ \E f \in BOOLEAN, cur \in Cursors, inc \in BOOLEAN : sync_bucket(f, cur, inc)
    \/ sync_step
    \/ sync_step_fails
    \/ sync_return
    \/ main_sync_again

Spec == Init /\ [][Next]_vars

\* The construction of the Env alone, over every command line and with
\* snapshots of either name
\* what the metadata key may hold before the command starts: nothing, a
\* flushed ledger, a text cut short, the JSON text "[]"
StoredLedger ==
    [t |-> "dict", generated_at |-> TupleValue,
     objects |-> [id \in {DecimalOf(1)} |->
                     [object_key |-> get_object_key(Prefix, 1),
                      size |-> SizeOf(1), sha256 |-> Digest(1)]]]
StoredTexts ==
    {None, StrV(json_dumps(StoredLedger)),
     StrV(SubSeq(json_dumps(StoredLedger), 1, 2)), StrV(json_dumps(ListValue))}

\* the key the commands use holds any of the stored texts
InitLedger ==
    /\ InitCommand
    /\ meta \in {m \in [MetaKeys -> StoredTexts] : IsNone(m[OtherPrefix \o MetaName])}

NextEnv ==
    \/ \E n \in Names : create_snapshot(n)
    \/ \E c \in Confs : main_env(c)
    \/ \E c \in Confs, command \in NeedsOption : main_usage_error(c, command)

SpecEnv == InitLedger /\ [][NextEnv]_vars

\* ------------------------------------------------------------- generate
\* --auto-snap-ratio, an int of default 5, and args.auto_snap_ratio or 5
DefaultSnapRatio == 5
SnapRatioArgs == {IntV(DefaultSnapRatio), IntV(1)}

\* the command lines of generate: no snapshot option is given; one run
\* (which snapshots after its cycle), under either prefix, or --forever with
\* --auto-snap and either ratio
GenArgs ==
    {a \in [prefix : PrefixArgs, forever : BOOLEAN, auto_snap : BOOLEAN,
            auto_snap_ratio : SnapRatioArgs] :
        /\ a.auto_snap = a.forever
        /\ ~a.forever => a.auto_snap_ratio = IntV(DefaultSnapRatio)
        /\ a.forever => IsNone(a.prefix)}

\* a generate command that has started and not ended
Running(p) == gen[p].pc \notin {"start", "done", "failed"}

\* main, lines 298-311, for generate: the workload loads the ledger
\* (overlap notes whether another generate command is running, refused
\* whether the store held a metadata object and failed to return it)
generate_start(p, a) ==
    /\ gen[p].pc = "start"
    /\ LET c == main_conf(a.prefix, None, None, None, None, FALSE)
           e == EnvOf(c, snaps, TRUE)
           others == \E q \in Procs \ {p} : Running(q)
       IN  \E ok \in BOOLEAN :
               gen' = [q \in Procs |->
                         IF q = p
                         THEN [gen[p] EXCEPT
                                 !.pc = "cycle", !.conf = c,
                                 !.metadata = load_metadata(meta, metaState, c, e, ok),
                                 !.forever = a.forever, !.auto_snap = a.auto_snap,
                                 !.snap_ratio = PyOr(a.auto_snap_ratio,
                                                     IntV(DefaultSnapRatio)).v,
                                 !.overlap = others,
                                 !.refused =
                                     /\ ~ok
                                     /\ ~IsNone(MetaGet(meta, metaState,
                                                c.metadata_object_key,
                                                get_object_snap(e, None)))]
                         ELSE [gen[q] EXCEPT !.overlap = @ \/ Running(q)]]
    /\ UNCHANGED <<live, snaps, snapState, nputs, conf, env, pc, call, steps, ret, io>>
    /\ UNCHANGED <<meta, metaState, metadata, report>>

\* sorted(obj_ids)
SortedIds(ids) == SelectSeq([i \in 1..Cardinality(ObjIds) |-> i], LAMBDA i : i \in ids)

\* generate_objects, lines 173-174: the ids of this cycle are drawn
generate_objects(p, obj_ids) ==
    /\ gen[p].pc = "cycle"
    /\ obj_ids # {}
    /\ nputs + Cardinality(obj_ids) <= MaxPuts
    /\ gen' = [gen EXCEPT ![p].pc = "upload", ![p].todo = SortedIds(obj_ids),
                          ![p].wrote = 0,
                          ![p].before = meta[gen[p].conf.metadata_object_key]]
    /\ UNCHANGED <<live, snaps, snapState, nputs, conf, env, pc, call, steps, ret, io>>
    /\ UNCHANGED <<meta, metaState, metadata, report>>

\* an entry with the hash of no content
obj_meta_unhashed(object_key, content) ==
    [object_key |-> object_key, size |-> SizeOf(content), sha256 |-> Digest(Absent)]

\* the entry gen_object returns for an object
obj_meta(object_key, content) ==
    [object_key |-> object_key, size |-> SizeOf(content), sha256 |-> Digest(content)]

\* self.metadata['objects'][str(obj_id)] = obj_meta
record_object(md, obj_id, m) ==
    [md EXCEPT !.objects =
        [k \in (DOMAIN md.objects) \cup {DecimalOf(obj_id)} |->
            IF k = DecimalOf(obj_id) THEN m ELSE md.objects[k]]]

\* one turn of the loop of generate_objects: gen_object uploads the object,
\* then its entry is recorded, which raises when the ledger is no dict
generate_upload(p, content) ==
    /\ gen[p].pc = "upload"
    /\ gen[p].todo # <<>>
    /\ LET obj_id == Head(gen[p].todo)
           object_key == get_object_key(gen[p].conf.prefix, obj_id)
       IN  /\ live' = put_object(live, SrcBucket, object_key, content)
           /\ nputs' = nputs + 1
           /\ gen' = IF IsLedger(gen[p].metadata)
                     THEN [gen EXCEPT
                             ![p].metadata = record_object(@, obj_id,
                                                 obj_meta(object_key, content)),
                             ![p].todo = Tail(@),
                             ![p].mine = @ \cup {obj_id},
                             ![p].ups = @ + 1]
                     ELSE [gen EXCEPT ![p].pc = "failed", ![p].ups = @ + 1]
    /\ UNCHANGED <<snaps, snapState, conf, env, pc, call, steps, ret, io>>
    /\ UNCHANGED <<meta, metaState, metadata, report>>

\* the put of the next upload, or of the flush, fails: nothing catches it
generate_put_fails(p) ==
    /\ gen[p].pc = "upload"
    /\ gen' = [gen EXCEPT ![p].pc = "failed"]
    /\ UNCHANGED <<live, snaps, snapState, nputs, conf, env, pc, call, steps, ret, io>>
    /\ UNCHANGED <<meta, metaState, metadata, report>>

\* a flush as soon as one object is uploaded
flush_due_early(todo, ids) == TRUE

\* main, lines 313-314: flush_meta follows generate_objects, whose loop has
\* gone through all the ids
flush_due(todo, ids) == todo = <<>>

\* a flush to the key under the configured prefix
flush_meta_key_prefixed(c) == c.prefix \o MetaName

\* the key flush_meta writes to
flush_meta_key(c) == c.metadata_object_key

\* flush_meta: generated_at becomes a tuple, one put of the whole ledger
flush_meta(p) ==
    /\ gen[p].pc = "upload"
    /\ flush_due(gen[p].todo, gen[p].mine)
    /\ LET md == [gen[p].metadata EXCEPT !.generated_at = TupleValue]
       IN  /\ meta' = [meta EXCEPT ![flush_meta_key(gen[p].conf)] = StrV(json_dumps(md))]
           /\ gen' = [gen EXCEPT ![p].pc = "flushed", ![p].metadata = md,
                                 ![p].wrote = @ + 1]
    /\ UNCHANGED <<live, snaps, snapState, nputs, conf, env, pc, call, steps, ret, io>>
    /\ UNCHANGED <<metaState, metadata, report>>

\* name of an automatic snapshot: 'snap-' and random text
AutoName == <<"snap-">>

\* main, lines 316-325: the automatic snapshot, then the end of the command
\* or the next cycle
generate_next(p) ==
    /\ gen[p].pc = "flushed"
    /\ LET counted == gen[p].auto_snap \/ ~gen[p].forever
           i == IF counted THEN gen[p].i + 1 ELSE gen[p].i
           snap == counted /\ i % gen[p].snap_ratio # 0
       IN  /\ snap => Len(snaps) < MaxSnaps
           /\ snaps' = IF snap
                       THEN Append(snaps, [ID |-> SnapIdAt(Len(snaps) + 1),
                                           Name |-> AutoName])
                       ELSE snaps
           /\ snapState' = IF snap THEN Append(snapState, live[SrcBucket]) ELSE snapState
           /\ metaState' = IF snap THEN Append(metaState, meta) ELSE metaState
           /\ gen' = [gen EXCEPT ![p].i = i,
                                 ![p].pc = IF gen[p].forever THEN "cycle" ELSE "done"]
    /\ UNCHANGED <<live, nputs, conf, env, pc, call, steps, ret, io>>
    /\ UNCHANGED <<meta, metadata, report>>

\* ------------------------------------------------------------- validate
\* the comparison of validate letting a failed fetch pass
validate_result_lenient(actual_hash, obj_info) ==
    IF actual_hash = obj_info.sha256 \/ actual_hash = <<"<error>">> THEN "OK"
    ELSE "ERROR"

\* the comparison of validate: OK when the hashes are equal
validate_result(actual_hash, obj_info) ==
    IF actual_hash = obj_info.sha256 THEN "OK" ELSE "ERROR"

\* the hash validate gets for an entry: '<error>' when the fetch raises
actual_hash_of(l, e, obj_info, fails) ==
    LET data == get_object(l, e, SrcBucket, obj_info.object_key, None)
    IN  IF fails \/ data = Absent THEN <<"<error>">> ELSE Digest(data)

\* validate: unfetched are the ids whose fetch the store fails
validate(l, e, md, unfetched) ==
    LET results == [k \in DOMAIN md.objects |->
                       validate_result(
                           actual_hash_of(l, e, md.objects[k], k \in unfetched),
                           md.objects[k])]
        fail_count == Cardinality({k \in DOMAIN results : results[k] = "ERROR"})
        success == \A k \in DOMAIN results : results[k] = "OK"
    IN  [t |-> "report", results |-> results, unfetched |-> unfetched,
         fail_count |-> IF success THEN None ELSE IntV(fail_count),
         summary |-> IF success THEN "SUCCESS" ELSE "FAIL"]

\* main, validate: a ledger that is no dict raises at line 200
main_validate(unfetched) ==
    /\ pc = "ready"
    /\ IF IsLedger(metadata)
       THEN /\ unfetched \subseteq DOMAIN metadata.objects
            /\ report' = validate(live, env, metadata, unfetched)
            /\ pc' = "done"
       ELSE /\ unfetched = {}
            /\ report' = report
            /\ pc' = "failed"
    /\ io' = io \cup (IF IsLedger(metadata) /\ metadata.objects # EmptyLedger.objects
                      THEN {"get_object"} ELSE {})
    /\ UNCHANGED <<live, snaps, snapState, nputs, conf, env, call, steps, ret>>
    /\ UNCHANGED <<meta, metaState, metadata, gen>>

\* the command lines of validate: a target snapshot id or none
LedgerConfs ==
    {main_conf(p, i, None, None, None, FALSE) : p \in PrefixArgs, i \in IdArgs}

IdTexts == {DecimalOf(i) : i \in ObjIds}

\* generate commands running side by side
NextGen ==
    \/ \E p \in Procs, a \in GenArgs : generate_start(p, a)
    \/ \E p \in Procs, ids \in SUBSET ObjIds : generate_objects(p, ids)
    \/ \E p \in Procs, v \in Contents : generate_upload(p, v)
    \/ \E p \in Procs : generate_put_fails(p)
    \/ \E p \in Procs : flush_meta(p)
    \/ \E p \in Procs : generate_next(p)

SpecGen == Init /\ [][NextGen]_vars

\* one generate command, another writer, and validate
FirstProc == 1
NextValidate ==
    \/ \E a \in GenArgs : generate_start(FirstProc, a)
    \/ \E ids \in SUBSET ObjIds : generate_objects(FirstProc, ids)
    \/ \E v \in Contents : generate_upload(FirstProc, v)
    \/ generate_put_fails(FirstProc)
    \/ flush_meta(FirstProc)
    \/ generate_next(FirstProc)
    \/ \E k \in Keys, v \in Contents : gen_object(k, v)
    \/ \E c \in LedgerConfs : main_env(c)
    \/ \E u \in SUBSET IdTexts : main_validate(u)

SpecValidate == InitLedger /\ [][NextValidate]_vars

\* =================================================================== C1
\* the text of an id option, '' when it is absent
OptText(x) == IF IsNone(x) THEN <<>> ELSE x.v

\* the Env of a command line that gives its snapshots by id only
EnvBuiltFromIds ==
    pc = "ready" /\ IsNone(conf.snap_name) /\ IsNone(conf.from_snap_name)

\* C1: with the ids supplied directly, the range expression is '-<target>'
\* when --all-objs is set, else '<from>-<target>' when a from id is given,
\* else '<target>' when a target id is given, else None; an absent target
\* contributes the empty text.
C1_RangeForms ==
    EnvBuiltFromIds =>
        env.snap_range =
            IF conf.all_objs THEN StrV(<<"-">> \o OptText(conf.snap_id))
            ELSE IF ~IsNone(conf.from_snap_id)
                 THEN StrV(conf.from_snap_id.v \o <<"-">> \o OptText(conf.snap_id))
            ELSE IF ~IsNone(conf.snap_id) THEN StrV(conf.snap_id.v)
            ELSE None

\* a delta range between two ids, the target of two digits
C1_Witness ==
    /\ EnvBuiltFromIds
    /\ ~conf.all_objs
    /\ ~IsNone(conf.from_snap_id)
    /\ ~IsNone(conf.snap_id)
    /\ Len(conf.snap_id.v) = 2
    /\ env.snap_range = StrV(conf.from_snap_id.v \o <<"-">> \o conf.snap_id.v)

\* =================================================================== C2
\* the Env of a command line that gives the from snapshot by name only,
\* without --all-objs
EnvBuiltFromName ==
    /\ pc = "ready"
    /\ IsNone(conf.from_snap_id)
    /\ ~IsNone(conf.from_snap_name)
    /\ ~conf.all_objs

\* C2: when the from snapshot is given by name only and the name resolves to
\* id F, the range expression is the delta 'F-<target>' ('F-' without target).
C2_FromByNameIsDelta ==
    EnvBuiltFromName =>
        env.snap_range =
            StrV(PyStr(env.from_snap_id) \o <<"-">>
                 \o (IF IsNone(env.snap_id) THEN <<>> ELSE PyStr(env.snap_id)))

\* ====================================================== sync_bucket calls
\* a sync_bucket call has returned
SyncDone == pc \in {"returned", "done"} /\ call.t = "call"

FollowDone == SyncDone /\ call.follow_snaps

\* positions, in the service's list as the call saw it, of the snapshots
\* with an id greater than the call's cursor, ascending
NewerSeq ==
    SelectSeq([i \in 1..call.nlisted |-> i],
              LAMBDA i : IsNone(call.cursor) \/ snaps[i].ID > call.cursor.v)

\* =================================================================== C3
\* C3 as stated: a non-incremental follow-snapshots sync over a non-empty
\* snapshot list, whatever the cursor, copies exactly one snapshot, the last
\* listed one newer than the cursor, and returns its id.
C3_SeedAlwaysCopiesOne ==
    (FollowDone /\ ~call.incremental /\ call.nlisted > 0) =>
        /\ Len(steps) = 1
        /\ NewerSeq # <<>>
        /\ steps[1].snap_id = IntV(snaps[NewerSeq[Len(NewerSeq)]].ID)
        /\ ret = steps[1].snap_id

\* C3 amended: when some listed snapshot is newer than the cursor, the
\* non-incremental follow-snapshots sync copies exactly one snapshot, the
\* last listed of them, and returns its id; when none is, it copies nothing
\* and returns the cursor.
C3_SeedCopiesLastNewer ==
    (FollowDone /\ ~call.incremental) =>
        IF NewerSeq # <<>>
        THEN /\ Len(steps) = 1
             /\ steps[1].snap_id = IntV(snaps[NewerSeq[Len(NewerSeq)]].ID)
             /\ ret = steps[1].snap_id
        ELSE steps = <<>> /\ ret = call.cursor

\* two snapshots were newer than the cursor and one copy was made
C3_Witness ==
    /\ FollowDone
    /\ ~call.incremental
    /\ Len(NewerSeq) = 2
    /\ Len(steps) = 1
    /\ ret = IntV(snaps[2].ID)

\* =================================================================== C4
\* C4: an incremental follow-snapshots sync makes one copy step for each
\* listed snapshot with an id greater than the cursor and for no other, in
\* listing order, which is ascending id order, and returns the id of the last
\* snapshot it processed.
C4_IncrementalCopiesEachNewer ==
    (FollowDone /\ call.incremental) =>
        /\ Len(steps) = Len(NewerSeq)
        /\ \A j \in 1..Len(steps) :
              /\ steps[j].snap_id = IntV(snaps[NewerSeq[j]].ID)
              /\ steps[j].incremental
        /\ \A i, j \in 1..Len(steps) : i < j => steps[i].snap_id.v < steps[j].snap_id.v
        /\ steps # <<>> => ret = steps[Len(steps)].snap_id

\* the cursor held back the first of two snapshots and the second was copied
C4_Witness ==
    /\ FollowDone
    /\ call.incremental
    /\ call.nlisted = 2
    /\ call.cursor = IntV(snaps[1].ID)
    /\ Len(steps) = 1
    /\ ret = IntV(snaps[2].ID)

\* =================================================================== C5
\* the newest snapshot of the source
Newest == snaps[Len(snaps)].ID

\* a chain of calls that began with main's seed call has returned the id of
\* the newest snapshot
SyncedToNewest ==
    /\ FollowDone
    /\ call.seeded
    /\ snaps # <<>>
    /\ ret = IntV(Newest)

\* C5: once a follow-snapshots sync (seed call, then incremental calls fed
\* the returned cursor) has returned the newest snapshot N, every key under
\* the prefix that the source held at N has in the destination the content
\* the source had at N, whatever was written to the source after N.
C5_DestConvergesToNewest ==
    SyncedToNewest =>
        \A k \in Keys :
            (StartsWith(k, conf.prefix) /\ StateAt(Newest)[k] # Absent)
                => live[DestBucket][k] = StateAt(Newest)[k]

\* reached by an incremental call, with a source object overwritten since N
C5_Witness ==
    /\ SyncedToNewest
    /\ call.incremental
    /\ steps # <<>>
    /\ \E k \in Keys : /\ StartsWith(k, conf.prefix)
                       /\ StateAt(Newest)[k] # Absent
                       /\ live[SrcBucket][k] # StateAt(Newest)[k]

\* =================================================================== C6
NoFollowDone == SyncDone /\ ~call.follow_snaps

\* C6 as stated: a sync without follow_snapshots makes exactly one copy, and
\* neither its listing nor its fetches carry a snapshot constraint.
C6_NoFollowIsUnbounded ==
    NoFollowDone =>
        /\ Len(steps) = 1
        /\ IsNone(steps[1].range)
        /\ IsNone(steps[1].fetch)

\* C6 amended: a sync without follow_snapshots makes exactly one copy, with
\* no snapshot of its own: the listing carries the range expression of the
\* command's Env and the fetches its target snapshot, so the copy is
\* unbounded exactly when the command was started without target, from and
\* all-objects options.
C6_NoFollowUsesEnvRange ==
    NoFollowDone =>
        /\ Len(steps) = 1
        /\ IsNone(steps[1].snap_id)
        /\ steps[1].range = env.snap_range
        /\ steps[1].fetch = (IF IsNone(env.snap_id) THEN None
                             ELSE IntV(PyInt(env.snap_id)))
        /\ (IsNone(steps[1].range) /\ IsNone(steps[1].fetch)) <=>
              (/\ IsNone(conf.snap_id) /\ IsNone(conf.snap_name)
               /\ IsNone(conf.from_snap_id) /\ ~conf.all_objs)

\* the copy of a command started with a target and a from snapshot
C6_Witness ==
    /\ NoFollowDone
    /\ Len(steps) = 1
    /\ ~IsNone(steps[1].fetch)
    /\ ~IsNone(steps[1].range)
    /\ RangeLo(steps[1].range.v) # <<>>

\* =================================================================== C7
\* the copy step of main's first, non-incremental, follow-snapshots call
SeedStep ==
    /\ call.t = "call"
    /\ call.follow_snaps
    /\ call.seeded
    /\ ~call.incremental
    /\ steps # <<>>

\* C7 as stated: the seed step lists the source with the point range 'S' of
\* the latest snapshot S.
C7_SeedListsPoint ==
    SeedStep => steps[1].range = StrV(DecimalOf(snaps[call.nlisted].ID))

\* C7 amended: the seed step lists the source with the full-through range
\* '-S' of the latest snapshot S, and fetches as of S.
C7_SeedListsFullThrough ==
    SeedStep =>
        /\ Len(steps) = 1
        /\ steps[1].range = StrV(<<"-">> \o DecimalOf(snaps[call.nlisted].ID))
        /\ steps[1].fetch = IntV(snaps[call.nlisted].ID)

\* a seed step over two snapshots, the latest with an id of two digits
C7_Witness ==
    /\ SeedStep
    /\ call.nlisted = 2
    /\ Len(steps[1].range.v) = 3

\* =================================================================== C8
\* the snapshot a listing is bounded by: the part of the range expression
\* after the dash, or all of it without a dash
ListTarget(range) ==
    IF IsNone(range) THEN None
    ELSE IF RangeHi(range.v) = <<>> THEN None
    ELSE IntV(ParseDecimal(RangeHi(range.v)))

\* C8: in every copy, of copy-bucket or of a sync step, the objects are
\* fetched as of the snapshot the listing was bounded by, and fetched live
\* when the listing had no target snapshot.
C8_ListAndFetchAgree ==
    \A i \in 1..Len(steps) : ListTarget(steps[i].range) = steps[i].fetch

\* copy-bucket under a delta range whose target was resolved by name
C8_Witness ==
    /\ pc = "done"
    /\ call.t = "none"
    /\ Len(steps) = 1
    /\ ~IsNone(conf.snap_name)
    /\ RangeLo(steps[1].range.v) # <<>>
    /\ steps[1].fetch = env.snap_id
    /\ steps[1].written # {}

\* =================================================================== C9
\* a copy_bucket call has just been made
CopyMade == steps' # steps /\ steps' # <<>>

\* C9: a copy only creates or overwrites destination objects: each key it
\* changes is a listed key under the prefix and receives the content fetched
\* for that same key; no destination object disappears, unlisted keys keep
\* their content, and the source bucket and its snapshots stay as they were.
C9_CopyOnlyWritesListed ==
    [][CopyMade =>
        LET st == steps'[Len(steps')]
            changed == {k \in Keys : live'[DestBucket][k] # live[DestBucket][k]}
        IN  /\ st.written \subseteq st.listed
            /\ st.listed = StoreKeys(live, st.range)
            /\ changed \subseteq st.written
            /\ \A k \in st.written :
                  /\ StartsWith(k, conf.prefix)
                  /\ live'[DestBucket][k] = StoreGet(live, SrcBucket, k, st.fetch)
            /\ \A k \in Keys : live[DestBucket][k] # Absent => live'[DestBucket][k] # Absent
            /\ \A k \in Keys \ st.listed : live'[DestBucket][k] = live[DestBucket][k]
            /\ live'[SrcBucket] = live[SrcBucket]
            /\ snapState' = snapState
            /\ snaps' = snaps]_vars

\* a copy wrote a key, left a listed key outside the prefix alone, and kept
\* a destination object that the source does not have
C9_Witness ==
    /\ steps # <<>>
    /\ LET st == steps[Len(steps)]
       IN  /\ st.written # {}
           /\ \E k \in st.listed : k \notin st.written
           /\ \E k \in Keys \ st.listed : live[DestBucket][k] # Absent
           /\ live[DestBucket] # st.before

\* ================================================================== C10
\* the snapshot arguments copy_bucket can be given
CopySnapArgs == {None} \cup {IntV(id) : id \in SnapIds}

\* C10: with the source as it is, running a copy a second time with the same
\* arguments leaves the destination as the first run left it.
C10_CopyIdempotent ==
    (pc \notin {"start", "failed"}) =>
        \A snap_id \in CopySnapArgs, incremental \in BOOLEAN :
            LET once == copy_bucket(live, conf, env, DestBucket, snap_id, incremental).live
                twice == copy_bucket(once, conf, env, DestBucket, snap_id, incremental).live
            IN  twice = once

\* a copy that changes the destination can be run in this state
C10_Witness ==
    /\ pc = "ready"
    /\ snaps # <<>>
    /\ \E snap_id \in CopySnapArgs :
          /\ ~IsNone(snap_id)
          /\ copy_bucket(live, conf, env, DestBucket, snap_id, TRUE).live # live

\* ================================================================== C11
\* the command has just built, or failed to build, its Env with resolution
Resolving == pc = "start" /\ pc' \in {"ready", "failed"}

\* positions in the service's list of the snapshots called name
Named(name) == {i \in 1..Len(snaps) : snaps[i].Name = name}
LastNamed(name) == CHOOSE i \in Named(name) : \A j \in Named(name) : j <= i

\* the command line makes no lookup by name for the from snapshot
NoFromLookup(c) == ~IsNone(c.from_snap_id) \/ ~Truthy(c.from_snap_name)

\* C11: snapshot resolution. A supplied id is the resolved id, and when no
\* other lookup is due the snapshot list is never requested; a name alone
\* resolves to the id of the last listed snapshot of exactly that name; a name
\* no listed snapshot carries raises the not-found error with that name, and
\* the command ends having created no bucket and written nothing.
C11_SnapshotResolution ==
    [][Resolving =>
        LET c == conf'
        IN  /\ ~IsNone(c.snap_id) =>
                /\ ~IsRaise(env') => env'.snap_id = c.snap_id
                /\ NoFromLookup(c) => "list_bucket_snapshots" \notin io'
            /\ (IsNone(c.snap_id) /\ Truthy(c.snap_name)
                    /\ Named(c.snap_name.v) # {} /\ ~IsRaise(env')) =>
                env'.snap_id = IntV(snaps[LastNamed(c.snap_name.v)].ID)
            /\ (IsNone(c.snap_id) /\ Truthy(c.snap_name)
                    /\ Named(c.snap_name.v) = {}) =>
                /\ env' = NotFound(c.snap_name.v)
                /\ pc' = "failed"
                /\ io' \cap {"create_bucket", "put_object"} = {}
                /\ live' = live /\ meta' = meta
            /\ (~IsRaise(env') /\ ~IsNone(c.from_snap_id)) =>
                env'.from_snap_id = c.from_snap_id
            /\ (~IsRaise(env') /\ IsNone(c.from_snap_id) /\ Truthy(c.from_snap_name)) =>
                env'.from_snap_id = IntV(snaps[LastNamed(c.from_snap_name.v)].ID)
    ]_vars

\* two snapshots carry the asked name and the later one was resolved
C11_Witness ==
    /\ pc = "ready"
    /\ IsNone(conf.snap_id) /\ Truthy(conf.snap_name)
    /\ Len(snaps) >= 2
    /\ snaps[1].Name = conf.snap_name.v /\ snaps[2].Name = conf.snap_name.v
    /\ env.snap_id = IntV(snaps[2].ID)

\* ================================================================== C15
\* the command went through the construction of its workload
Constructed == pc \in {"ready", "rejected"}

\* the metadata object the command's load asked the store for
StoredForCommand ==
    MetaGet(meta, metaState, conf.metadata_object_key, get_object_snap(env, None))

\* the stored text is that of a ledger: an object with its objects map
WellFormed(stored) == ~IsNone(stored) /\ IsLedgerText(stored.v)

\* C15: loading never fails. When the metadata object is missing or its
\* content is not a well-formed ledger the command holds the empty ledger,
\* and it holds anything else only when the stored ledger is well-formed.
C15_LoadFallsBackToEmpty ==
    Constructed =>
        /\ ~WellFormed(StoredForCommand) => metadata = EmptyLedger
        /\ metadata # EmptyLedger => WellFormed(StoredForCommand)

\* ================================================================== C16
\* C16: a command line that lacks its required option is rejected before any
\* call to the object store or the snapshot service.
C16_RejectedBeforeIO == pc = "rejected" => io = {}

\* ================================================================== C18
\* C18: the ledger's key is the configured prefix followed by
\* 'metadata.json', so it lies under the prefix a copy is restricted to.
C18_MetadataUnderPrefix ==
    Constructed =>
        /\ conf.metadata_object_key = conf.prefix \o MetaName
        /\ StartsWith(conf.metadata_object_key, conf.prefix)

\* ================================================================== C20
\* a call of main's sync-bucket loop that follows the snapshots
LoopCall == call # NoCall /\ call.seeded /\ call.follow_snaps
LoopReturned == LoopCall /\ pc \in {"returned", "done"}

\* a cursor as a number, no cursor being below every id
CursorOrder(x) == IF IsNone(x) THEN 0 ELSE PyInt(x)

\* ids of the snapshots the running call listed that are newer than the
\* cursor it was given
NewerListed ==
    {snaps[i].ID : i \in {j \in 1..call.nlisted : snaps[j].ID > CursorOrder(call.cursor)}}

StepIds == {PyInt(steps[i].snap_id) : i \in 1..Len(steps)}
Ascending(q) == \A i \in 1..Len(q), j \in 1..Len(q) : i < j => q[i] < q[j]

\* C20: over the successive calls of the sync-bucket loop, each given the
\* cursor the previous one returned: the cursor never decreases; a call that
\* lists no snapshot newer than its cursor copies nothing and returns the
\* cursor unchanged; only the first call makes a non-incremental copy; no
\* snapshot is copied twice, and a later call copies every listed snapshot
\* newer than its cursor.
LoopReturnedRight ==
    LoopReturned =>
        /\ CursorOrder(ret) >= CursorOrder(call.cursor)
        /\ NewerListed = {} => (steps = <<>> /\ ret = call.cursor)
        /\ call.incremental => StepIds = NewerListed
LoopCallRight ==
    LoopCall =>
        /\ \A i \in 1..Len(steps) : steps[i].incremental = call.incremental
        /\ Ascending(call.copied)

C20_CursorAdvancesOnce ==
    [][/\ LoopReturnedRight'
       /\ LoopCallRight'
       /\ (pc = "returned" /\ pc' = "syncing" /\ call.follow_snaps) =>
              (call'.incremental /\ call'.cursor = ret)]_vars

\* the first call copied one snapshot and a later call the next one
C20_Witness ==
    /\ LoopReturned
    /\ call.incremental
    /\ Len(call.copied) >= 2
    /\ Len(steps) >= 1

\* ================================================================== C17
\* C17: with --forever a failing call does not end the command: the loop
\* goes on to re-invoke the operation from the last returned cursor.
C17_ForeverSurvivesFailure ==
    (call # NoCall /\ call.forever) => pc # "failed"

\* ================================================================== C12
\* generate command p has flushed its ledger and the store still holds, at
\* the key p wrote, what p flushed
StillStored(p) ==
    /\ gen[p].pc = "flushed"
    /\ meta[flush_meta_key(gen[p].conf)] = StrV(json_dumps(gen[p].metadata))

\* what a command configured like p, with target snapshot option a, loads
LoadedLike(p, a) ==
    LET c == [gen[p].conf EXCEPT !.snap_id = a]
    IN  load_metadata(meta, metaState, c, EnvOf(c, snaps, TRUE), TRUE)

RoundTrips(p, a) ==
    /\ IsLedger(LoadedLike(p, a))
    /\ LoadedLike(p, a).objects = gen[p].metadata.objects

\* the ledger stored when snapshot a was taken, empty when there was none
LedgerAsOf(p, a) ==
    LET stored == metaState[SnapIndex(ParseDecimal(a.v))][gen[p].conf.metadata_object_key]
    IN  IF IsNone(stored) THEN EmptyLedger ELSE json_loads(stored.v)

\* C12 as stated: after a flush, a load in a command configured the same
\* way, with or without a target snapshot id, yields the flushed objects map.
C12_RoundTripAnyTarget ==
    \A p \in Procs : StillStored(p) => \A a \in IdArgs : RoundTrips(p, a)

\* C12 amended: after a flush, a load in a command configured the same way and
\* started without a target snapshot yields the flushed objects map; started
\* with a target snapshot id it yields the ledger stored when that snapshot
\* was taken.
C12_RoundTripLive ==
    \A p \in Procs : StillStored(p) =>
        /\ RoundTrips(p, None)
        /\ \A a \in IdArgs \ {None} : LoadedLike(p, a) = LedgerAsOf(p, a)

\* a ledger with entries was flushed while a snapshot exists
C12_Witness ==
    \E p \in Procs :
        /\ StillStored(p)
        /\ gen[p].metadata.objects # EmptyLedger.objects
        /\ SnapIds # {}
        /\ RoundTrips(p, None)

\* ================================================================== C13
\* validate has just run to its end
Validated == pc = "ready" /\ pc' = "done" /\ report' # NoReport

\* what the store holds for a ledger entry, as of the command's target
\* snapshot when it has one
FetchedFor(obj_info) ==
    StoreGet(live, SrcBucket, obj_info.object_key, get_object_snap(env, None))

\* the entry's object cannot be fetched, or its digest is not the recorded one
Mismatch(k, unfetched) ==
    \/ k \in unfetched
    \/ FetchedFor(metadata.objects[k]) = Absent
    \/ Digest(FetchedFor(metadata.objects[k])) # metadata.objects[k].sha256

Errors(r) == {k \in DOMAIN r.results : r.results[k] = "ERROR"}

\* C13: validate gives every ledger entry a result, ERROR exactly for the
\* entries whose object cannot be fetched or has another digest than the
\* recorded one and OK for the others; the count it prints is the number of
\* ERROR entries; the summary is SUCCESS exactly when there is none.
C13_ValidateExact ==
    [][Validated =>
        /\ DOMAIN report'.results = DOMAIN metadata.objects
        /\ \A k \in DOMAIN metadata.objects :
              /\ report'.results[k] \in {"OK", "ERROR"}
              /\ report'.results[k] = "ERROR" <=> Mismatch(k, report'.unfetched)
        /\ report'.summary \in {"SUCCESS", "FAIL"}
        /\ report'.summary = "SUCCESS" <=> Errors(report') = {}
        /\ report'.summary = "FAIL" =>
              report'.fail_count = IntV(Cardinality(Errors(report')))
    ]_vars

\* every fetch answered, two entries, one object changed since it was
\* recorded: FAIL with a count of one
C13_Witness ==
    /\ pc = "done"
    /\ report # NoReport
    /\ report.unfetched = {}
    /\ Cardinality(DOMAIN report.results) = 2
    /\ Cardinality(Errors(report)) = 1
    /\ report.summary = "FAIL"
    /\ report.fail_count = IntV(1)

\* ================================================================== C14
\* keys whose metadata object the step rewrote
Rewritten == {k \in MetaKeys : meta'[k] # meta[k]}

\* the step is the flush of command p at the end of its uploads
FlushOf(p) ==
    /\ gen[p].pc = "upload" /\ gen[p].todo = <<>> /\ gen[p].wrote = 0
    /\ gen'[p].pc = "flushed" /\ gen'[p].wrote = 1
    /\ Rewritten \subseteq {gen[p].conf.metadata_object_key}

\* C14: the stored ledger is never partially flushed. The metadata object is
\* rewritten only by the flush that ends a cycle, when every upload of the
\* cycle is done, and once per cycle; an upload step leaves it alone, and so
\* does a cycle that fails.
C14_FlushOncePerCycle ==
    [][/\ Rewritten # {} => \E p \in Procs : FlushOf(p)
       /\ \A p \in Procs :
             /\ gen'[p].pc = "flushed" => (gen'[p].wrote = 1 /\ gen'[p].todo = <<>>)
             /\ gen'[p].pc = "upload" => gen'[p].wrote = 0
             /\ (gen[p].pc = "upload" /\ gen'[p].pc = "failed") =>
                    (meta' = meta /\ gen'[p].wrote = 0)
    ]_vars

\* a cycle of two uploads has been flushed
C14_Witness ==
    \E p \in Procs :
        /\ gen[p].pc = "flushed"
        /\ gen[p].ups = 2
        /\ gen[p].wrote = 1
        /\ Cardinality(DOMAIN gen[p].metadata.objects) = 2
        /\ meta[gen[p].conf.metadata_object_key] # gen[p].before

\* ================================================================== C19
\* every generate command that started has completed its cycles so far
AllQuiet == \A p \in Procs : gen[p].pc \in {"start", "done", "cycle"}
Started == {p \in Procs : gen[p].pc # "start"}
SamePrefix == \A p \in Started, q \in Started : gen[p].conf.prefix = gen[q].conf.prefix

\* the ledger the store holds at the key of command p
StoredLedgerOf(p) ==
    LET stored == meta[gen[p].conf.metadata_object_key]
    IN  IF IsNone(stored) THEN EmptyLedger ELSE json_loads(stored.v)

\* the stored ledger has the entry command p recorded for id, with the digest
\* of the object the bucket holds
Kept(p, id) ==
    LET ledger == StoredLedgerOf(p)
        object_key == get_object_key(gen[p].conf.prefix, id)
    IN  /\ IsLedger(ledger)
        /\ DecimalOf(id) \in DOMAIN ledger.objects
        /\ ledger.objects[DecimalOf(id)].object_key = object_key
        /\ ledger.objects[DecimalOf(id)].sha256 = Digest(live[SrcBucket][object_key])

\* an update was lost: an entry a command recorded is missing or stale
Lost == \E p \in Started : \E id \in gen[p].mine : ~Kept(p, id)

Overlapped == \E p \in Procs : gen[p].overlap
Refused == \E p \in Procs : gen[p].refused

ValidateNow(p) ==
    validate(live, EnvOf(gen[p].conf, snaps, TRUE), StoredLedgerOf(p), {})

NoOtherWriter == gen[FirstProc].pc # "start" /\ nputs = gen[FirstProc].ups

\* positions of the snapshots generate took by itself
AutoSnaps == {i \in 1..Len(snaps) : snaps[i].Name = AutoName}

\* the ledger stored when snapshot i was taken
LedgerAt(i) ==
    LET stored == metaState[i][gen[FirstProc].conf.metadata_object_key]
    IN  IF IsNone(stored) THEN EmptyLedger ELSE json_loads(stored.v)

\* what validate reports for a command started with --snap-id of snapshot i
ValidateAt(i) ==
    LET c == [gen[FirstProc].conf EXCEPT !.snap_id = StrV(DecimalOf(snaps[i].ID))]
        e == EnvOf(c, snaps, TRUE)
    IN  validate(live, e, load_metadata(meta, metaState, c, e, TRUE), {})

\* the cycle generate just ended was one that takes a snapshot
JustSnapped ==
    /\ gen[FirstProc].pc \in {"cycle", "done"}
    /\ gen[FirstProc].auto_snap \/ ~gen[FirstProc].forever
    /\ gen[FirstProc].i % gen[FirstProc].snap_ratio # 0

\* C21: with one generate command and no other writer, the snapshot a cycle
\* takes is taken after the cycle's flush and before the next upload (as the
\* cycle ends, the newest snapshot holds the objects and the ledger as they
\* are stored now, and that ledger is the one the command holds), and each
\* such snapshot is consistent: every entry of the ledger as of the snapshot
\* records the digest of the object as of the snapshot, and validate at the
\* snapshot finds no mismatch.
C21_AutoSnapshotConsistent ==
    NoOtherWriter =>
        /\ JustSnapped =>
              /\ Len(snaps) \in AutoSnaps
              /\ snapState[Len(snaps)] = live[SrcBucket]
              /\ metaState[Len(snaps)] = meta
              /\ meta[gen[FirstProc].conf.metadata_object_key]
                    = StrV(json_dumps(gen[FirstProc].metadata))
        /\ \A i \in AutoSnaps :
              /\ IsLedger(LedgerAt(i))
              /\ \A k \in DOMAIN LedgerAt(i).objects :
                    LET obj_info == LedgerAt(i).objects[k]
                    IN  /\ snapState[i][obj_info.object_key] # Absent
                        /\ obj_info.sha256 = Digest(snapState[i][obj_info.object_key])
              /\ ValidateAt(i).summary = "SUCCESS"

\* generate took a snapshot after a cycle that recorded an object, and
\* validate run at that snapshot printed SUCCESS
C21_Witness ==
    /\ NoOtherWriter
    /\ gen[FirstProc].ups >= 1
    /\ pc = "done" /\ report # NoReport
    /\ ~IsNone(env.snap_id)
    /\ SnapIndex(PyInt(env.snap_id)) \in AutoSnaps
    /\ DOMAIN report.results # {}
    /\ report.unfetched = {}
    /\ report.summary = "SUCCESS"

====
